---- MODULE Spec2Model ----
(***************************************************************************)
(* The relay of src/src/main.rs as a state machine: main's startup and     *)
(* receive loop, State::init, and the three handlers msg_handler           *)
(* dispatches to.  A Message (inbound or outbound: the program uses one    *)
(* type for both) is a record [cat, kind, ...]; field names imply one type *)
(* each: `data` is a Vec<DatasetData> (a snapshot), `item` one DatasetData *)
(* (Append's data), `payload` one DatasetData (an event's data).           *)
(***************************************************************************)
EXTENDS Integers, Sequences, FiniteSets, TLC

\* ------------------------------------------------------------------ bounds
\* Recp snapshots of every content are delivered up to this length.
MaxRecps == 1
\* Snapshots of the fixed contents Ramp(n, k) are delivered up to the length
\* HistoryLimit + MaxOver.
MaxOver == 2
\* Events received in the two-step view of the loop (SeqSpec).
MaxReceived == 3
\* test_event events that arrive when a remote store is modelled (StoreSpec).
MaxArrivals == 12

\* --------------------------------------------------------- program constants
\* main.rs:174  if self.msgs.len() > 10
HistoryLimit == 10
\* main.rs:178  id: 0
EvictPosition == 0

\* ------------------------------------------------------------------ values
\* Texts a user types or a collection holds.  "k1" and "k2" stand for two
\* base-64 encodings of peer identities, "abc" for text that is no encoding
\* of one.
Texts == {"abc", "k1", "k2"}

\* DatasetData::String(text)
Str(t) == [tag |-> "String", val |-> t]
\* a DatasetData of another variant than String
NonString == [tag |-> "Null", val |-> ""]
\* DatasetData values
Datas == {Str(t) : t \in Texts} \cup {NonString}

\* UiInput::Text(text), and a UiInput of another variant
TextInput(t) == [tag |-> "Text", val |-> t]
NonTextInput == [tag |-> "Click", val |-> ""]
UiInputs == {TextInput(t) : t \in Texts} \cup {NonTextInput}

\* Relation { id, role: Role::Peer }
Peer(i) == [id |-> i, role |-> "Peer"]
\* Relation::peer_from_base_64: <<relation>> for Some(relation), <<>> for None.
\* The decoding is not the identity: an encoding maps to the identity it
\* encodes, anything else to None.
peer_from_base_64(s) ==
    CASE s = "k1" -> <<Peer(1)>>
      [] s = "k2" -> <<Peer(2)>>
      [] OTHER -> <<>>

\* DatasetPath::new_private(parts)
new_private(parts) == [scope |-> "Private", parts |-> parts]
recp_dataset == new_private(<<"Recp">>)
msgs_dataset == new_private(<<"Messages">>)
\* Paths an inbound dataset message may carry: the two above, a private path
\* of another name, and a path of the same name in another scope.
Paths == {recp_dataset, msgs_dataset, new_private(<<"Other">>),
          [scope |-> "Public", parts |-> <<"Recp">>]}

\* client.self_relation().id
SelfId == 0

\* ---------------------------------------------------------------- messages
\* Message::Dataset(DatasetMessage::..)
DsSubscribe(p) == [cat |-> "Dataset", kind |-> "Subscribe", path |-> p]
DsDataset(p, d) == [cat |-> "Dataset", kind |-> "Dataset", path |-> p, data |-> d]
DsAppend(p, x) == [cat |-> "Dataset", kind |-> "Append", path |-> p, item |-> x]
DsDeleteElement(p, i) == [cat |-> "Dataset", kind |-> "DeleteElement", path |-> p, id |-> i]

\* Message::Router(RouterMessage::..)
RtSendEvent(n, rs, x) == [cat |-> "Router", kind |-> "SendEvent", name |-> n, recps |-> rs, payload |-> x]
RtEvent(n, from, x) == [cat |-> "Router", kind |-> "Event", name |-> n, from |-> from, payload |-> x]
RtSubscribe(n) == [cat |-> "Router", kind |-> "Subscribe", name |-> n]
RtSetIdentityProperty(k, v) == [cat |-> "Router", kind |-> "SetIdentityProperty", key |-> k, value |-> v]

\* Message::Ui(UiMessage::..)
UiInput(id, ids, change) == [cat |-> "Ui", kind |-> "Input", id |-> id, ids |-> ids, change |-> change]
UiSetPage(page) == [cat |-> "Ui", kind |-> "SetPage", page |-> page]

\* What lastEvent holds when no message was received: NoMsg before the first
\* recv, RecvdNone once recv has yielded None.
NoMsg == [cat |-> "NotYet"]
RecvdNone == [cat |-> "None"]

\* The page State::init builds (main.rs:88-143): a Rows root with a text
\* entry "Add Recp", a Rows bound to the Recp dataset, a text entry
\* "Send Msg", a Rows bound to the Messages dataset.
TextEntry(s) == [kind |-> "TextEntry", text |-> s, selectable |-> TRUE, id |-> s]
BoundRows(p) == [kind |-> "Rows", dataset |-> [path |-> p, owner |-> SelfId],
                 children |-> <<[kind |-> "Text", content |-> <<"Data">>]>>]
test_page ==
    [name |-> "Router Test Page", owner |-> SelfId,
     root |-> [kind |-> "Rows",
               children |-> <<[el |-> TextEntry("Add Recp")],
                              [el |-> BoundRows(recp_dataset)],
                              [el |-> TextEntry("Send Msg")],
                              [el |-> BoundRows(msgs_dataset)]>>]]

\* ------------------------------------------------------------ inbound events
RECURSIVE SeqsUpTo(_, _)
\* The sequences over S of length at most n.
SeqsUpTo(S, n) ==
    IF n = 0 THEN {<<>>}
    ELSE LET shorter == SeqsUpTo(S, n - 1)
         IN  shorter \cup {Append(s, x) : s \in {t \in shorter : Len(t) = n - 1}, x \in S}

\* The k-th of four DatasetData values, cyclically.
DataAt(k) ==
    CASE k % 4 = 0 -> Str("abc")
      [] k % 4 = 1 -> Str("k1")
      [] k % 4 = 2 -> NonString
      [] OTHER -> Str("k2")
\* A snapshot of n entries whose contents vary with the position.
Ramp(n, k) == [i \in 1..n |-> DataAt(i + k)]

\* Snapshots delivered for the Recp path: every content up to MaxRecps, and
\* longer ones that mix encodings, other text and other variants.
RecpSnapshots ==
    SeqsUpTo(Datas, MaxRecps)
        \cup {Ramp(n, 2) : n \in (2..4) \cup ((HistoryLimit + 1)..(HistoryLimit + MaxOver))}
\* Snapshots delivered for the Messages path: every length up to
\* HistoryLimit + MaxOver, and every content of length one.
MsgsSnapshots ==
    SeqsUpTo(Datas, 1) \cup {Ramp(n, 0) : n \in 0..(HistoryLimit + MaxOver)}
\* Snapshots delivered for the other paths.
OtherSnapshots == {<<Str("k1")>>, Ramp(HistoryLimit + 1, 0)}

\* DatasetMessage::Dataset { path, data } events.
SnapshotEvents ==
    {DsDataset(recp_dataset, d) : d \in RecpSnapshots}
        \cup {DsDataset(msgs_dataset, d) : d \in MsgsSnapshots}
        \cup {DsDataset(p, d) : p \in Paths \ {recp_dataset, msgs_dataset},
                                d \in OtherSnapshots}
\* Dataset messages of the other variants the source names.
OtherDatasetEvents ==
    {DsSubscribe(recp_dataset), DsAppend(recp_dataset, Str("abc")),
     DsAppend(msgs_dataset, Str("abc")), DsDeleteElement(msgs_dataset, EvictPosition)}

\* UiMessage::Input(element_id, dataset_ids, change) events.
ElementIds == {"Add Recp", "Send Msg", "Other"}
InputEvents == {UiInput(id, <<>>, c) : id \in ElementIds, c \in UiInputs}
\* The other UiMessage variants (main.rs:188-196, 234); their fields are not read.
OtherUiKinds == {"Subscribe", "Pages", "GetPage", "Page", "UpdateElementsFor",
                 "InputFor", "SetPage", "ClearPage", "UpdateElements", "Dataset"}
OtherUiEvents == {[cat |-> "Ui", kind |-> k] : k \in OtherUiKinds}

\* RouterMessage::Event(name, from, data) events.
EventNames == {"test_event", "other_event"}
AppEvents == {RtEvent(n, Peer(i), x) : n \in EventNames, i \in {1, 2}, x \in {Str("abc"), NonString}}
\* The other RouterMessage variants (main.rs:240, 251-259).
OtherRouterEvents ==
    {RtSendEvent("test_event", <<Peer(1)>>, Str("abc")),
     RtSubscribe("test_event"),
     RtSetIdentityProperty("name", "Test Router")}
        \cup {[cat |-> "Router", kind |-> k, name |-> "test_event"] : k \in {"Unsubscribe"}}
        \cup {[cat |-> "Router", kind |-> k] : k \in {"SubscribeDir", "UnsubscribeDir"}}
        \cup {[cat |-> "Router", kind |-> k, identity |-> Peer(1)]
               : k \in {"AddIdentity", "RemoveIdentity"}}

\* Everything client.recv() may yield as Some(msg).
Events ==
    SnapshotEvents \cup OtherDatasetEvents \cup InputEvents \cup OtherUiEvents
        \cup AppEvents \cup OtherRouterEvents

\* ------------------------------------------------------------------- state
VARIABLES
    pc,         \* where main is: "init" (connected, before State::init),
                \* "recv" (in the loop, at client.recv()), "done" (returned)
    exit,       \* main's result: "running", then "Ok" for Ok(())
    chan,       \* the channel: "open", or "closed" (recv yields None)
    recps,      \* State.recps
    msgs,       \* State.msgs
    out,        \* the messages client.send was given by main's latest step
    lastEvent,  \* what the latest recv yielded (NoMsg before the first recv)
    lastSnap,   \* history: per path, <<data>> of the last snapshot received, <<>> if none
    run,        \* history: k when the last k events were Messages snapshots of lengths 1..k
    runDeletes, \* history: the DeleteElement messages sent during that run
    roundTrip,  \* history: "added" after an Add Recp "abc" input on empty recps,
                \* "done" when a Recp snapshot [abc] is the very next event
    setPages,   \* history: the SetPage messages sent so far
    cur,        \* SeqSpec: the message recv yielded and msg_handler has yet to handle
    received,   \* SeqSpec history: the messages recv yielded, in order
    sentLog,    \* SeqSpec history: the messages client.send was given, in order
    remote,     \* StoreSpec: the Messages collection the remote store holds
    cmdq,       \* StoreSpec: the messages sent and not yet applied by the store
    snapq,      \* StoreSpec: the Messages snapshots emitted and not yet received
    arrived,    \* StoreSpec history: the test_event events that have arrived
    trig,       \* StoreSpec history: for each DeleteElement in cmdq, the first
                \* entry of the snapshot whose handler sent it
    evicted,    \* StoreSpec history: <<[removed, first]>> for the entry the last
                \* applied DeleteElement removed and that first entry; <<>> if none
    applied,    \* StoreSpec history: the DeleteElement messages applied so far
    exceeded    \* StoreSpec history: the remote collection has held more than 10 entries

progVars == <<pc, exit, recps, msgs, out>>
histVars == <<lastEvent, lastSnap, run, runDeletes, roundTrip, setPages>>
seqVars == <<cur, received, sentLog>>
storeVars == <<remote, cmdq, snapq, arrived, trig, evicted, applied, exceeded>>
vars == <<pc, exit, chan, recps, msgs, out, lastEvent, lastSnap, run, runDeletes, roundTrip,
          setPages, cur, received, sentLog,
          remote, cmdq, snapq, arrived, trig, evicted, applied, exceeded>>

\* ---------------------------------------------------------------- handlers
\* client.send(msg).await: msg joins what the running step has sent.
send(sent, msg) == Append(sent, msg)

\* A slip: the snapshot is added to the collection instead of replacing it.
assign_extends(old, data) == old \o data

\* main.rs:171 and 173: self.recps = data / self.msgs = data.
assign(old, data) == data

\* A slip: the comparison is off by one.
over_limit_at_ten(ms) == Len(ms) >= HistoryLimit

\* main.rs:174: self.msgs.len() > 10.
over_limit(ms) == Len(ms) > HistoryLimit

delete_from_recps == DsDeleteElement(new_private(<<"Recp">>), EvictPosition)

delete_second == DsDeleteElement(new_private(<<"Messages">>), EvictPosition + 1)

\* main.rs:175-179: DeleteElement { path: msgs_dataset, id: 0 }.
delete_oldest == DsDeleteElement(new_private(<<"Messages">>), EvictPosition)

\* A slip: the paths are compared by their names alone, not their scope.
dataset_handler_by_name(msg) ==
    IF msg.kind = "Dataset"
    THEN IF msg.path.parts = <<"Recp">>
         THEN /\ recps' = assign(recps, msg.data)
              /\ msgs' = msgs
              /\ out' = <<>>
         ELSE IF msg.path.parts = <<"Messages">>
         THEN /\ msgs' = assign(msgs, msg.data)
              /\ recps' = recps
              /\ out' = IF over_limit(msgs') THEN send(<<>>, delete_oldest) ELSE <<>>
         ELSE /\ out' = <<>>
              /\ UNCHANGED <<recps, msgs>>
    ELSE /\ out' = <<>>
         /\ UNCHANGED <<recps, msgs>>

\* A slip: the Recp arm trims as the Messages arm does.
dataset_handler_trims_recps(msg) ==
    IF msg.kind = "Dataset"
    THEN IF msg.path = new_private(<<"Recp">>)
         THEN /\ recps' = assign(recps, msg.data)
              /\ msgs' = msgs
              /\ out' = IF over_limit(recps')
                        THEN send(<<>>, DsDeleteElement(new_private(<<"Recp">>), EvictPosition))
                        ELSE <<>>
         ELSE IF msg.path = new_private(<<"Messages">>)
         THEN /\ msgs' = assign(msgs, msg.data)
              /\ recps' = recps
              /\ out' = IF over_limit(msgs') THEN send(<<>>, delete_oldest) ELSE <<>>
         ELSE /\ out' = <<>>
              /\ UNCHANGED <<recps, msgs>>
    ELSE /\ out' = <<>>
         /\ UNCHANGED <<recps, msgs>>

\* main.rs:165-184.
dataset_handler(msg) ==
    IF msg.kind = "Dataset"
    THEN IF msg.path = new_private(<<"Recp">>)
         THEN /\ recps' = assign(recps, msg.data)
              /\ msgs' = msgs
              /\ out' = <<>>
         ELSE IF msg.path = new_private(<<"Messages">>)
         THEN /\ msgs' = assign(msgs, msg.data)
              /\ recps' = recps
              /\ out' = IF over_limit(msgs') THEN send(<<>>, delete_oldest) ELSE <<>>
         ELSE /\ out' = <<>>
              /\ UNCHANGED <<recps, msgs>>
    ELSE /\ out' = <<>>
         /\ UNCHANGED <<recps, msgs>>

RECURSIVE decode_recps_until_bad(_)
\* A slip: the first entry that does not decode ends the loop.
decode_recps_until_bad(rs) ==
    IF rs = <<>> THEN <<>>
    ELSE LET recp == Head(rs)
             relation == IF recp.tag = "String" THEN peer_from_base_64(recp.val) ELSE <<>>
         IN  IF relation = <<>> THEN <<>> ELSE relation \o decode_recps_until_bad(Tail(rs))

RECURSIVE decode_recps(_)
\* main.rs:214-221: the relations the String entries of rs decode to, in order;
\* an entry that is no String, or decodes to None, is passed over.
decode_recps(rs) ==
    IF rs = <<>> THEN <<>>
    ELSE LET recp == Head(rs)
             relation == IF recp.tag = "String" THEN peer_from_base_64(recp.val) ELSE <<>>
         IN  relation \o decode_recps(Tail(rs))

\* A slip: the text also joins the local collection at once.
add_recp_optimistic(change) ==
    /\ out' = IF change.tag = "Text"
              THEN send(<<>>, DsAppend(new_private(<<"Recp">>), Str(change.val)))
              ELSE <<>>
    /\ recps' = IF change.tag = "Text" THEN Append(recps, Str(change.val)) ELSE recps
    /\ msgs' = msgs

\* A slip: text already in the local collection is not appended again.
add_recp_dedup(change) ==
    /\ out' = IF change.tag = "Text" /\ \A i \in 1..Len(recps) : recps[i] # Str(change.val)
              THEN send(<<>>, DsAppend(new_private(<<"Recp">>), Str(change.val)))
              ELSE <<>>
    /\ UNCHANGED <<recps, msgs>>

\* main.rs:199-209: the "Add Recp" arm.
add_recp(change) ==
    /\ out' = IF change.tag = "Text"
              THEN send(<<>>, DsAppend(new_private(<<"Recp">>), Str(change.val)))
              ELSE <<>>
    /\ UNCHANGED <<recps, msgs>>

\* A slip: the payload's variant is not looked at.
send_msg_any_payload(change) ==
    /\ out' = send(<<>>, RtSendEvent("test_event", decode_recps(recps), Str(change.val)))
    /\ UNCHANGED <<recps, msgs>>

\* A slip: nothing is sent when no recipient decodes.
send_msg_needs_recps(change) ==
    /\ out' = IF change.tag = "Text" /\ decode_recps(recps) # <<>>
              THEN send(<<>>, RtSendEvent("test_event", decode_recps(recps), Str(change.val)))
              ELSE <<>>
    /\ UNCHANGED <<recps, msgs>>

\* main.rs:210-230: the "Send Msg" arm.
send_msg(change) ==
    /\ out' = IF change.tag = "Text"
              THEN send(<<>>, RtSendEvent("test_event", decode_recps(recps), Str(change.val)))
              ELSE <<>>
    /\ UNCHANGED <<recps, msgs>>

\* A slip: a GetPage is answered with the page.
ui_handler_answers_get_page(msg) ==
    IF msg.kind = "Input"
    THEN CASE msg.id = "Add Recp" -> add_recp(msg.change)
           [] msg.id = "Send Msg" -> send_msg(msg.change)
           [] OTHER -> /\ out' = <<>>
                       /\ UNCHANGED <<recps, msgs>>
    ELSE /\ out' = IF msg.kind = "GetPage" THEN send(<<>>, UiSetPage(test_page)) ELSE <<>>
         /\ UNCHANGED <<recps, msgs>>

\* main.rs:186-236.
ui_handler(msg) ==
    IF msg.kind = "Input"
    THEN CASE msg.id = "Add Recp" -> add_recp(msg.change)
           [] msg.id = "Send Msg" -> send_msg(msg.change)
           [] OTHER -> /\ out' = <<>>
                       /\ UNCHANGED <<recps, msgs>>
    ELSE /\ out' = <<>>
         /\ UNCHANGED <<recps, msgs>>

\* A slip: the SendEvent arm relays as the Event arm does.
is_test_event_or_send(msg) == msg.kind \in {"Event", "SendEvent"} /\ msg.name = "test_event"

\* main.rs:241-242: the Event arm is taken, and its name is "test_event".
is_test_event(msg) == msg.kind = "Event" /\ msg.name = "test_event"

\* A slip: the payload is appended to the Recp dataset.
relay_to_recp(msg) == DsAppend(new_private(<<"Recp">>), msg.payload)

\* main.rs:243-247: Append { path: msgs_dataset, data }.
relay(msg) == DsAppend(new_private(<<"Messages">>), msg.payload)

\* main.rs:238-261.
router_handler(msg) ==
    /\ out' = IF is_test_event(msg) THEN send(<<>>, relay(msg)) ELSE <<>>
    /\ UNCHANGED <<recps, msgs>>

\* main.rs:157-163.
msg_handler(msg) ==
    CASE msg.cat = "Ui" -> ui_handler(msg)
      [] msg.cat = "Dataset" -> dataset_handler(msg)
      [] msg.cat = "Router" -> router_handler(msg)

\* A slip: the page is sent before the subscriptions.
init_commands_page_first ==
    LET s1 == send(<<>>, RtSetIdentityProperty("name", "Test Router"))
        s2 == send(s1, UiSetPage(test_page))
        s3 == send(s2, DsSubscribe(new_private(<<"Recp">>)))
        s4 == send(s3, DsSubscribe(new_private(<<"Messages">>)))
    IN  send(s4, RtSubscribe("test_event"))

\* main.rs:64-84 and 147-148: what State::init sends, in order.
init_commands ==
    LET recp == new_private(<<"Recp">>)
        msgsp == new_private(<<"Messages">>)
        s1 == send(<<>>, RtSetIdentityProperty("name", "Test Router"))
        s2 == send(s1, DsSubscribe(recp))
        s3 == send(s2, DsSubscribe(msgsp))
        s4 == send(s3, RtSubscribe("test_event"))
    IN  send(s4, UiSetPage(test_page))

\* main.rs:150-154: Self { recps: vec![], msgs: vec![] }.
init_collection == <<>>

\* ------------------------------------------------------- history variables
\* The messages of sent that are of the category and kind.
CountKind(sent, cat, kind) ==
    Len(SelectSeq(sent, LAMBDA c : c.cat = cat /\ c.kind = kind))

IsSnapshotFor(e, p) == e.cat = "Dataset" /\ e.kind = "Dataset" /\ e.path = p

\* What the history variables record of receiving e; sent is what the
\* handler sent for it.
Observe(e, sent) ==
    /\ lastEvent' = e
    /\ lastSnap' =
           IF IsSnapshotFor(e, recp_dataset) THEN [lastSnap EXCEPT !.recp = <<e.data>>]
           ELSE IF IsSnapshotFor(e, msgs_dataset) THEN [lastSnap EXCEPT !.msgs = <<e.data>>]
           ELSE lastSnap
    /\ setPages' = setPages + CountKind(sent, "Ui", "SetPage")
    /\ LET deletes == CountKind(sent, "Dataset", "DeleteElement")
       IN  IF IsSnapshotFor(e, msgs_dataset) /\ Len(e.data) = run + 1
           THEN run' = run + 1 /\ runDeletes' = runDeletes + deletes
           ELSE IF IsSnapshotFor(e, msgs_dataset) /\ Len(e.data) = 1
           THEN run' = 1 /\ runDeletes' = deletes
           ELSE run' = 0 /\ runDeletes' = 0
    /\ roundTrip' =
           IF e = UiInput("Add Recp", <<>>, TextInput("abc")) /\ recps = <<>>
           THEN "added"
           ELSE IF roundTrip = "added" /\ e = DsDataset(recp_dataset, <<Str("abc")>>)
           THEN "done"
           ELSE "idle"

\* ------------------------------------------------------------------ actions
\* main.rs:42: connected, State::init not yet called.  There is no State yet;
\* its two fields are held empty until Startup builds it.
Init ==
    /\ pc = "init"
    /\ exit = "running"
    /\ chan = "open"
    /\ recps = <<>>
    /\ msgs = <<>>
    /\ out = <<>>
    /\ lastEvent = NoMsg
    /\ lastSnap = [recp |-> <<>>, msgs |-> <<>>]
    /\ run = 0
    /\ runDeletes = 0
    /\ roundTrip = "idle"
    /\ setPages = 0
    /\ cur = NoMsg
    /\ received = <<>>
    /\ sentLog = <<>>
    /\ remote = <<>>
    /\ cmdq = <<>>
    /\ snapq = <<>>
    /\ arrived = 0
    /\ trig = <<>>
    /\ evicted = <<>>
    /\ applied = 0
    /\ exceeded = FALSE

\* main.rs:43: let mut state = State::init(&mut client).await.
StartupStep ==
    /\ pc = "init"
    /\ out' = init_commands
    /\ recps' = init_collection
    /\ msgs' = init_collection
    /\ pc' = "recv"
    /\ setPages' = setPages + CountKind(out', "Ui", "SetPage")
    /\ UNCHANGED <<exit, chan>>
    /\ UNCHANGED <<lastEvent, lastSnap, run, runDeletes, roundTrip>>

\* Startup where the loop is seen as one step for each message.
Startup ==
    /\ StartupStep
    /\ UNCHANGED seqVars
    /\ UNCHANGED storeVars

\* main.rs:46-47: client.recv() yields Some(msg); msg_handler runs to its end.
RecvSome ==
    /\ pc = "recv"
    /\ chan = "open"
    /\ \E msg \in Events :
           /\ msg_handler(msg)
           /\ Observe(msg, out')
    /\ UNCHANGED <<pc, exit, chan>>
    /\ UNCHANGED seqVars
    /\ UNCHANGED storeVars

\* A slip: None does not end the loop.
RecvNone_continues ==
    /\ pc = "recv"
    /\ chan = "closed"
    /\ out' = <<>>
    /\ lastEvent' = RecvdNone
    /\ UNCHANGED <<pc, exit, chan, recps, msgs>>
    /\ UNCHANGED <<lastSnap, run, runDeletes, roundTrip, setPages>>
    /\ UNCHANGED seqVars
    /\ UNCHANGED storeVars

\* main.rs:48 and 52: client.recv() yields None; break, then Ok(()).
RecvNone ==
    /\ pc = "recv"
    /\ chan = "closed"
    /\ pc' = "done"
    /\ exit' = "Ok"
    /\ out' = <<>>
    /\ lastEvent' = RecvdNone
    /\ UNCHANGED <<chan, recps, msgs>>
    /\ UNCHANGED <<lastSnap, run, runDeletes, roundTrip, setPages>>
    /\ UNCHANGED seqVars
    /\ UNCHANGED storeVars

\* The environment closes the channel: from then on recv yields None.
CloseChannel ==
    /\ chan = "open"
    /\ chan' = "closed"
    /\ UNCHANGED progVars
    /\ UNCHANGED histVars
    /\ UNCHANGED seqVars
    /\ UNCHANGED storeVars

Next == Startup \/ RecvSome \/ RecvNone \/ CloseChannel

Spec == Init /\ [][Next]_vars

\* main is one task that is scheduled whenever it can step.
FairSpec == Spec /\ WF_vars(Startup) /\ WF_vars(RecvSome \/ RecvNone)

\* ------------------------------------------------- the loop in two steps
\* The same loop with recv and msg_handler as steps of their own, and the
\* messages received and sent kept in order.
SeqEvents ==
    {DsDataset(recp_dataset, <<Str("k1")>>),
     DsDataset(recp_dataset, <<>>),
     DsDataset(msgs_dataset, Ramp(HistoryLimit + 1, 0)),
     UiInput("Send Msg", <<>>, TextInput("abc")),
     UiInput("Add Recp", <<>>, TextInput("k2")),
     RtEvent("test_event", Peer(1), Str("abc")),
     [cat |-> "Ui", kind |-> "ClearPage"]}

\* main.rs:43, with what it sends logged.
SeqStartup ==
    /\ StartupStep
    /\ sentLog' = sentLog \o out'
    /\ UNCHANGED <<cur, received>>
    /\ UNCHANGED storeVars

\* A slip: the handler is spawned and not awaited, so recv runs again while a
\* message is still to be handled.
SeqRecv_unawaited ==
    /\ pc \in {"recv", "handle"}
    /\ chan = "open"
    /\ Len(received) < MaxReceived
    /\ \E msg \in SeqEvents :
           /\ cur' = msg
           /\ received' = Append(received, msg)
    /\ pc' = "handle"
    /\ out' = <<>>
    /\ UNCHANGED <<exit, chan, recps, msgs, sentLog>>
    /\ UNCHANGED histVars
    /\ UNCHANGED storeVars

\* main.rs:46: client.recv().await yields Some(msg).
SeqRecv ==
    /\ pc = "recv"
    /\ chan = "open"
    /\ Len(received) < MaxReceived
    /\ \E msg \in SeqEvents :
           /\ cur' = msg
           /\ received' = Append(received, msg)
    /\ pc' = "handle"
    /\ out' = <<>>
    /\ UNCHANGED <<exit, chan, recps, msgs, sentLog>>
    /\ UNCHANGED histVars
    /\ UNCHANGED storeVars

\* main.rs:47: state.msg_handler(&mut client, msg).await runs to its end.
SeqHandle ==
    /\ pc = "handle"
    /\ msg_handler(cur)
    /\ Observe(cur, out')
    /\ sentLog' = sentLog \o out'
    /\ cur' = NoMsg
    /\ pc' = "recv"
    /\ UNCHANGED <<exit, chan, received>>
    /\ UNCHANGED storeVars

SeqNext == SeqStartup \/ SeqRecv \/ SeqHandle \/ RecvNone \/ CloseChannel

SeqSpec == Init /\ [][SeqNext]_vars

\* ------------------------------------------------ the loop with its store
\* The relay with the remote store its messages go to: the store applies the
\* Append and DeleteElement messages for Messages in the order sent and
\* answers each change with a snapshot; messages and snapshots are in flight
\* in between.  The events that arrive are test_event events, the n-th with
\* the text of n as payload.  What startup sends changes no collection and is
\* not queued.
RemoveAt(s, i) == SubSeq(s, 1, i) \o SubSeq(s, i + 2, Len(s))

\* main.rs:46-47 with a test_event: the handler's message joins cmdq.
StoreEvent ==
    /\ pc = "recv"
    /\ chan = "open"
    /\ arrived < MaxArrivals
    /\ arrived' = arrived + 1
    /\ LET msg == RtEvent("test_event", Peer(1), Str(ToString(arrived + 1)))
       IN  /\ msg_handler(msg)
           /\ Observe(msg, out')
    /\ cmdq' = cmdq \o out'
    /\ UNCHANGED <<pc, exit, chan>>
    /\ UNCHANGED seqVars
    /\ UNCHANGED <<remote, snapq, trig, evicted, applied, exceeded>>

\* main.rs:46-47 with the oldest snapshot in flight: the handler's message,
\* if it sends one, joins cmdq.
StoreDeliver ==
    /\ pc = "recv"
    /\ chan = "open"
    /\ snapq # <<>>
    /\ LET msg == DsDataset(msgs_dataset, Head(snapq))
       IN  /\ msg_handler(msg)
           /\ Observe(msg, out')
           /\ trig' = IF CountKind(out', "Dataset", "DeleteElement") > 0
                      THEN Append(trig, IF msg.data = <<>> THEN NonString ELSE msg.data[1])
                      ELSE trig
    /\ snapq' = Tail(snapq)
    /\ cmdq' = cmdq \o out'
    /\ UNCHANGED <<pc, exit, chan>>
    /\ UNCHANGED seqVars
    /\ UNCHANGED <<remote, arrived, evicted, applied, exceeded>>

\* The store applies the oldest message in flight.
StoreApply ==
    /\ cmdq # <<>>
    /\ LET c == Head(cmdq)
           isDelete == c.cat = "Dataset" /\ c.kind = "DeleteElement"
           onMessages == c.cat = "Dataset" /\ c.path = msgs_dataset
       IN  /\ remote' = IF onMessages /\ c.kind = "Append" THEN Append(remote, c.item)
                        ELSE IF onMessages /\ isDelete /\ c.id < Len(remote)
                        THEN RemoveAt(remote, c.id)
                        ELSE remote
           /\ evicted' = IF isDelete
                         THEN <<[removed |-> IF onMessages /\ c.id < Len(remote)
                                             THEN remote[c.id + 1] ELSE NonString,
                                 first |-> Head(trig)]>>
                         ELSE evicted
           /\ trig' = IF isDelete THEN Tail(trig) ELSE trig
           /\ applied' = IF isDelete THEN applied + 1 ELSE applied
    /\ cmdq' = Tail(cmdq)
    /\ snapq' = IF remote' # remote THEN Append(snapq, remote') ELSE snapq
    /\ exceeded' = (exceeded \/ Len(remote') > HistoryLimit)
    /\ UNCHANGED progVars
    /\ UNCHANGED <<chan, arrived>>
    /\ UNCHANGED histVars
    /\ UNCHANGED seqVars

StoreNext == Startup \/ StoreEvent \/ StoreDeliver \/ StoreApply

StoreSpec == Init /\ [][StoreNext]_vars

\* main is scheduled whenever it can step, the store applies what it was sent
\* and the channel delivers what the store emitted.
StoreFairSpec ==
    StoreSpec /\ WF_vars(Startup) /\ WF_vars(StoreDeliver) /\ WF_vars(StoreApply)

\* ================================================================== claims
\* The collection a history entry <<data>> / <<>> stands for.
Latest(entry) == IF entry = <<>> THEN <<>> ELSE entry[1]

\* C1: in every state the local recipients collection is the data of the last
\* snapshot received for Recp and the local messages collection that of the last
\* snapshot received for Messages, each empty while none was received; as the
\* history changes on snapshot events only, no other event changes either.
C1_MirrorsLastSnapshot ==
    /\ recps = Latest(lastSnap.recp)
    /\ msgs = Latest(lastSnap.msgs)

\* C1's case: both paths had snapshots, the Recp one of several entries of
\* mixed kinds, and an Add Recp text input came after them.
C1_Witness ==
    /\ lastSnap.recp = <<Ramp(3, 2)>>
    /\ lastSnap.msgs = <<Ramp(2, 0)>>
    /\ lastEvent = UiInput("Add Recp", <<>>, TextInput("k1"))

\* C2: after a Messages snapshot is handled, what its handler sent is exactly
\* one DeleteElement(Messages, 0) if the snapshot has more than 10 entries and
\* nothing if it has 10 or fewer; so over a run of snapshots of lengths 1, 2, ..
\* no DeleteElement is sent up to length 10 and exactly one by length 11.
C2_BoundedHistory ==
    /\ IsSnapshotFor(lastEvent, msgs_dataset) =>
           out = IF Len(lastEvent.data) > 10
                 THEN <<DsDeleteElement(msgs_dataset, 0)>>
                 ELSE <<>>
    /\ run \in 1..10 => runDeletes = 0
    /\ run = 11 => runDeletes = 1

\* C2's case: eleven successive Messages snapshots of lengths 1..11 were handled
\* and the last one's handler sent the DeleteElement.
C2_Witness ==
    /\ run = 11
    /\ runDeletes = 1
    /\ out = <<DsDeleteElement(msgs_dataset, 0)>>

\* C3: startup runs once and before the first receive: nothing is received or
\* sent while main is before State::init, main never returns there, and when the
\* loop begins (nothing received yet) what was sent is SetIdentityProperty,
\* Subscribe(Recp), Subscribe(Messages), Subscribe(test_event), SetPage, in that
\* order, five messages, and both collections are empty.
C3_Startup ==
    /\ [](pc = "init" => lastEvent = NoMsg /\ out = <<>>)
    /\ []((pc = "recv" /\ lastEvent = NoMsg) =>
              /\ Len(out) = 5
              /\ out[1].cat = "Router" /\ out[1].kind = "SetIdentityProperty"
              /\ out[2] = DsSubscribe(recp_dataset)
              /\ out[3] = DsSubscribe(msgs_dataset)
              /\ out[4] = RtSubscribe("test_event")
              /\ out[5].cat = "Ui" /\ out[5].kind = "SetPage"
              /\ recps = <<>>
              /\ msgs = <<>>)
    /\ [][pc # "init" => pc' # "init"]_vars
    /\ [][lastEvent' # lastEvent => pc = "recv"]_vars

\* C3's case: startup has run and the loop is at its first receive.
C3_Witness ==
    /\ pc = "recv"
    /\ lastEvent = NoMsg
    /\ Len(out) = 5

\* a RouterMessage::Event named test_event
IsTestEvent(e) == e.cat = "Router" /\ e.kind = "Event" /\ e.name = "test_event"

\* C4: a step that receives a router event named test_event with payload p sends
\* exactly Append(Messages, p), whoever sent the event and whatever p is, and
\* leaves both collections as they were.
C4_RelayTestEvent ==
    [][(lastEvent' # lastEvent /\ IsTestEvent(lastEvent')) =>
           /\ out' = <<DsAppend(msgs_dataset, lastEvent'.payload)>>
           /\ recps' = recps
           /\ msgs' = msgs]_vars

\* C4's case: a test_event from peer 2 with a payload that is no text was
\* relayed while both collections held entries.
C4_Witness ==
    /\ lastEvent = RtEvent("test_event", Peer(2), NonString)
    /\ out = <<DsAppend(msgs_dataset, NonString)>>
    /\ recps # <<>>
    /\ msgs # <<>>

\* a UiMessage::Input from the element id carrying text
IsTextInput(e, id) == e.cat = "Ui" /\ e.kind = "Input" /\ e.id = id /\ e.change.tag = "Text"

\* an entry that is text and decodes to a peer reference
Decodable(x) == x.tag = "String" /\ peer_from_base_64(x.val) # <<>>

\* C5: a step that receives a "Send Msg" text input t sends exactly
\* SendEvent(test_event, R, t), where R holds, in collection order, the peer
\* references the decodable entries of the local recipients collection decode
\* to; R is as long as there are decodable entries, and an entry that does not
\* decode neither ends the handler nor withholds the message.
C5_SendMsg ==
    [][(lastEvent' # lastEvent /\ IsTextInput(lastEvent', "Send Msg")) =>
           LET valid == SelectSeq(recps, Decodable)
               R == [i \in 1..Len(valid) |-> peer_from_base_64(valid[i].val)[1]]
           IN  /\ out' = <<RtSendEvent("test_event", R, Str(lastEvent'.change.val))>>
               /\ Len(out'[1].recps) = Cardinality({i \in 1..Len(recps) : Decodable(recps[i])})]_vars

\* C5's case: a "Send Msg" text went to the two peers of a recipients collection
\* [k2, abc, k1, non-text], in that order.
C5_Witness ==
    /\ recps = Ramp(4, 2)
    /\ lastEvent = UiInput("Send Msg", <<>>, TextInput("abc"))
    /\ out = <<RtSendEvent("test_event", <<Peer(2), Peer(1)>>, Str("abc"))>>

\* C6: a step that receives an "Add Recp" text input t sends exactly
\* Append(Recp, t) and leaves the local recipients collection as it was, also
\* when t is already an entry of it or is no encoding of a peer.
C6_AddRecp ==
    [][(lastEvent' # lastEvent /\ IsTextInput(lastEvent', "Add Recp")) =>
           /\ out' = <<DsAppend(recp_dataset, Str(lastEvent'.change.val))>>
           /\ recps' = recps]_vars

\* C6's case: "abc", no encoding of a peer and already the only recipient, was
\* typed into "Add Recp".
C6_Witness ==
    /\ lastEvent = UiInput("Add Recp", <<>>, TextInput("abc"))
    /\ recps = <<Str("abc")>>
    /\ out = <<DsAppend(recp_dataset, Str("abc"))>>

\* The variants the handlers pass over: a UI message that is no Input, a router
\* message that is no Event, a dataset message that is no snapshot.
Ignorable(e) ==
    \/ e.cat = "Ui" /\ e.kind # "Input"
    \/ e.cat = "Router" /\ e.kind # "Event"
    \/ e.cat = "Dataset" /\ e.kind # "Dataset"

\* C7: a step that receives a variant the handlers pass over sends nothing and
\* leaves both collections as they were, from every reachable state, also when
\* the same variant was received the step before.
C7_IgnoredVariants ==
    [][Ignorable(lastEvent') =>
           /\ out' = <<>>
           /\ recps' = recps
           /\ msgs' = msgs]_vars

\* C7's case: a SendEvent came in while the recipients collection held entries
\* and the messages collection was over its limit.
C7_Witness ==
    /\ lastEvent = RtSendEvent("test_event", <<Peer(1)>>, Str("abc"))
    /\ recps = Ramp(4, 2)
    /\ Len(msgs) = 11
    /\ out = <<>>

\* C8: after an "Add Recp" text input "abc" on an empty recipients collection
\* the collection is still empty, and when the next event is the Recp snapshot
\* [abc] the collection is [abc].
C8_RoundTrip ==
    /\ roundTrip = "added" => recps = <<>>
    /\ roundTrip = "done" => recps = <<Str("abc")>>

\* C8's case: the input and then the snapshot were received.
C8_Witness ==
    /\ roundTrip = "done"
    /\ lastEvent = DsDataset(recp_dataset, <<Str("abc")>>)

\* C9: when recv yields None (the channel is closed) the loop ends: main returns
\* Ok(()), that step sends nothing and dispatches nothing, no step follows it,
\* and a closed channel leads to the loop's end.
C9_ClosedEndsLoop ==
    /\ [][(pc = "recv" /\ chan = "closed") =>
              /\ pc' = "done"
              /\ exit' = "Ok"
              /\ out' = <<>>
              /\ lastEvent' = RecvdNone
              /\ recps' = recps
              /\ msgs' = msgs]_vars
    /\ [][pc # "done"]_vars
    /\ [](exit = "Ok" <=> pc = "done")
    /\ (chan = "closed") ~> (pc = "done")

\* C9's case: the channel closed after events were handled and main returned.
C9_Witness ==
    /\ pc = "done"
    /\ exit = "Ok"
    /\ lastSnap.recp # <<>>
    /\ lastSnap.msgs # <<>>


\* C13: a step that receives a snapshot for a path that is neither Recp nor
\* Messages sends nothing and leaves both collections as they were, whatever
\* the length of the snapshot.
C13_OtherPathSnapshot ==
    [][(/\ lastEvent' # lastEvent
        /\ lastEvent'.cat = "Dataset" /\ lastEvent'.kind = "Dataset"
        /\ lastEvent'.path # recp_dataset
        /\ lastEvent'.path # msgs_dataset) =>
           /\ out' = <<>>
           /\ recps' = recps
           /\ msgs' = msgs]_vars

\* C13's case: a snapshot of 11 entries came in for the path named Recp of
\* another scope, while both collections held other entries.
C13_Witness ==
    /\ lastEvent = DsDataset([scope |-> "Public", parts |-> <<"Recp">>], Ramp(11, 0))
    /\ out = <<>>
    /\ recps = Ramp(3, 2)
    /\ msgs = Ramp(2, 0)

\* C14: a step that receives a UI input sends nothing and leaves both
\* collections as they were when the element id is neither "Add Recp" nor
\* "Send Msg", whatever the payload, and when the id is one of the two and the
\* payload is no text.
C14_UnhandledInput ==
    [][(/\ lastEvent' # lastEvent
        /\ lastEvent'.cat = "Ui" /\ lastEvent'.kind = "Input"
        /\ \/ lastEvent'.id \notin {"Add Recp", "Send Msg"}
           \/ lastEvent'.change.tag # "Text") =>
           /\ out' = <<>>
           /\ recps' = recps
           /\ msgs' = msgs]_vars

\* C14's case: a payload that is no text came from "Send Msg" while the
\* recipients collection held two peers.
C14_Witness ==
    /\ lastEvent = UiInput("Send Msg", <<>>, NonTextInput)
    /\ recps = Ramp(4, 2)
    /\ out = <<>>

\* C14's other case: text came from an element with another id.
C14_WitnessOtherId ==
    /\ lastEvent = UiInput("Other", <<>>, TextInput("k1"))
    /\ out = <<>>

\* C15: a step that receives a Recp snapshot sends nothing, also when the
\* snapshot has more than 10 entries, and leaves the messages collection as it
\* was; a step that receives a Messages snapshot leaves the recipients
\* collection as it was.
C15_SnapshotFrame ==
    [][/\ (lastEvent' # lastEvent /\ IsSnapshotFor(lastEvent', recp_dataset)) =>
              out' = <<>> /\ msgs' = msgs
       /\ (lastEvent' # lastEvent /\ IsSnapshotFor(lastEvent', msgs_dataset)) =>
              recps' = recps]_vars

\* C15's case: a Recp snapshot of 12 entries was handled with nothing sent,
\* the messages collection holding entries.
C15_Witness ==
    /\ lastEvent = DsDataset(recp_dataset, Ramp(12, 2))
    /\ recps = Ramp(12, 2)
    /\ out = <<>>
    /\ msgs = Ramp(11, 0)

\* C20: a step that receives a "Send Msg" text input t while no entry of the
\* recipients collection decodes (the collection may be empty) still sends
\* exactly SendEvent(test_event, <<>>, t).
C20_SendWithoutRecipients ==
    [][(/\ lastEvent' # lastEvent
        /\ IsTextInput(lastEvent', "Send Msg")
        /\ \A i \in 1..Len(recps) : ~Decodable(recps[i])) =>
           out' = <<RtSendEvent("test_event", <<>>, Str(lastEvent'.change.val))>>]_vars

\* C20's case: text was sent while the only recipient entry was no encoding.
C20_Witness ==
    /\ recps = <<Str("abc")>>
    /\ lastEvent = UiInput("Send Msg", <<>>, TextInput("k1"))
    /\ out = <<RtSendEvent("test_event", <<>>, Str("k1"))>>

\* C20's other case: text was sent while the recipients collection was empty.
C20_WitnessEmpty ==
    /\ recps = <<>>
    /\ lastEvent = UiInput("Send Msg", <<>>, TextInput("abc"))
    /\ out = <<RtSendEvent("test_event", <<>>, Str("abc"))>>


\* The messages the handlers of the loop send: Append to Recp or Messages,
\* DeleteElement(Messages, 0), SendEvent(test_event, .., ..).
LoopCommand(c) ==
    \/ c.cat = "Dataset" /\ c.kind = "Append" /\ c.path \in {recp_dataset, msgs_dataset}
    \/ c = DsDeleteElement(msgs_dataset, 0)
    \/ c.cat = "Router" /\ c.kind = "SendEvent" /\ c.name = "test_event"

\* C16: SetPage is sent once, by startup: none before State::init has run, one
\* ever after; and every message a step of the loop sends is an Append to Recp
\* or Messages, a DeleteElement(Messages, 0) or a SendEvent(test_event), so no
\* SetPage, SetIdentityProperty or Subscribe.
C16_PageOnce ==
    /\ [](pc = "init" => setPages = 0)
    /\ [](pc # "init" => setPages = 1)
    /\ [][lastEvent' # lastEvent => \A i \in 1..Len(out') : LoopCommand(out'[i])]_vars

\* C16's case: the loop has handled a GetPage, and snapshots before it, and the
\* one SetPage is still startup's.
C16_Witness ==
    /\ lastEvent = [cat |-> "Ui", kind |-> "GetPage"]
    /\ lastSnap.msgs = <<Ramp(11, 0)>>
    /\ setPages = 1
    /\ out = <<>>


\* The peers the decodable entries of rs decode to, in order.
DecodedPeers(rs) ==
    LET valid == SelectSeq(rs, Decodable)
    IN  [i \in 1..Len(valid) |-> peer_from_base_64(valid[i].val)[1]]

\* What the handler of e is to send when the recipients collection is rs.
CommandsFor(e, rs) ==
    IF IsTestEvent(e) THEN <<DsAppend(msgs_dataset, e.payload)>>
    ELSE IF IsTextInput(e, "Add Recp") THEN <<DsAppend(recp_dataset, Str(e.change.val))>>
    ELSE IF IsTextInput(e, "Send Msg")
    THEN <<RtSendEvent("test_event", DecodedPeers(rs), Str(e.change.val))>>
    ELSE IF IsSnapshotFor(e, msgs_dataset) /\ Len(e.data) > 10
    THEN <<DsDeleteElement(msgs_dataset, 0)>>
    ELSE <<>>

RECURSIVE RecpsAfter(_, _)
\* The recipients collection once the first k of the events es are handled.
RecpsAfter(es, k) ==
    IF k = 0 THEN <<>>
    ELSE IF IsSnapshotFor(es[k], recp_dataset) THEN es[k].data
    ELSE RecpsAfter(es, k - 1)

RECURSIVE CommandsOfFirst(_, _)
\* The commands of the first k of the events es, each handler's in turn and
\* each seeing the collection as the events before it left it.
CommandsOfFirst(es, k) ==
    IF k = 0 THEN <<>>
    ELSE CommandsOfFirst(es, k - 1) \o CommandsFor(es[k], RecpsAfter(es, k - 1))

\* The events whose handler has run to its end.
Handled == IF pc = "handle" THEN Len(received) - 1 ELSE Len(received)

\* C12: events are handled one at a time: whenever an event is received every
\* earlier event's handler has ended, so all that was sent after startup is the
\* commands of the handled events, handler by handler in arrival order, each
\* computed on the collection the earlier events left; nothing of an event is
\* sent before its handler runs, and the collection is that of the handled
\* events alone.
C12_Sequential ==
    /\ pc = "init" => sentLog = <<>> /\ received = <<>>
    /\ pc = "handle" => cur = received[Len(received)]
    /\ pc # "init" =>
           /\ Len(sentLog) >= 5
           /\ SubSeq(sentLog, 6, Len(sentLog)) = CommandsOfFirst(received, Handled)
           /\ recps = RecpsAfter(received, Handled)

\* C12's case: a Send Msg went to the peer of the Recp snapshot received
\* before it, not to the empty collection of the snapshot received after it,
\* and a test_event was relayed after that.
C12_Witness ==
    /\ pc = "recv"
    /\ received = <<DsDataset(recp_dataset, <<Str("k1")>>),
                    UiInput("Send Msg", <<>>, TextInput("abc")),
                    DsDataset(recp_dataset, <<>>)>>
    /\ SubSeq(sentLog, 6, Len(sentLog)) = <<RtSendEvent("test_event", <<Peer(1)>>, Str("abc"))>>
    /\ recps = <<>>

\* The DeleteElement messages among sent.
Deletes(sent) == CountKind(sent, "Dataset", "DeleteElement")

\* C17: with the store applying every Append and DeleteElement in order and
\* answering each change with a Messages snapshot, once test_event events
\* have stopped arriving (the channel staying open) the store's Messages and
\* the local msgs come to hold at most 10 entries for good, and from then on
\* no DeleteElement is sent or in flight.
C17_EvictionConverges ==
    <>[](/\ Len(remote) <= 10
         /\ Len(msgs) <= 10
         /\ Deletes(out) = 0
         /\ Deletes(cmdq) = 0)

\* C17's case: the store held more than 10 entries, deletes were applied one
\* by one, and all is at rest with the local copy equal to the store's.
C17_Witness ==
    /\ exceeded
    /\ applied >= 2
    /\ cmdq = <<>>
    /\ snapq = <<>>
    /\ msgs = remote
    /\ Len(remote) <= 10
    /\ out = <<>>

\* The latest applied DeleteElement removed another entry than the first
\* entry of the snapshot that made the relay send it.
WrongEviction == evicted # <<>> /\ evicted[1].removed # evicted[1].first

\* C18: a DeleteElement names position 0, not an entry, so the store removes
\* what is first when it applies the message: that is another entry than the
\* first of the triggering snapshot in a reachable state (C18_Witness), and
\* only when a DeleteElement was applied before it; appends in flight, which
\* add at the end, do not make it so.
C18_WrongOnlyAfterDelete == WrongEviction => applied >= 2

\* C18's case: two over-limit snapshots were in flight, the second delete
\* removed the entry "2" while the snapshot that caused it began with "1".
C18_Witness ==
    /\ WrongEviction
    /\ evicted[1].first = Str("1")
    /\ evicted[1].removed = Str("2")
    /\ applied = 2

\* C19: once the store's Messages held more than 10 entries, the relay's
\* DeleteElement messages never bring it below 10 entries.
C19_NeverOverTrims == exceeded => Len(remote) >= 10

====
